---- MODULE Spec2Model ----
(***************************************************************************)
(* State-machine model of gemini-agents (src/main.go).                     *)
(*                                                                         *)
(* src/main.go holds two generations of the program.  Lines 1-374 are the  *)
(* float agent with the generic agent routines (initAgent, newSession,     *)
(* callAgent, handleAgentRequest, runAgent) inline; lines 376-658 are the  *)
(* float + math agents built on the gemini-agent-assemble package, whose   *)
(* routines are the same ones under exported names.  The variable prog     *)
(* selects which main() runs: "v1" (lines 175-211) or "v2" (611-658).      *)
(*                                                                         *)
(* Strings that cross a conversion (JSON, the calc tool) are sequences of  *)
(* one-character strings.                                                  *)
(***************************************************************************)
EXTENDS Integers, Sequences, FiniteSets, TLC

----------------------------------------------------------------------------
(* Program constants *)

\* main.go:285  for idx := 0; idx < 25; idx++
MaxCycles == 25

\* net/http status codes used by handleAgentRequest and the default mux
StatusOK == 200
StatusBadRequest == 400
StatusNotFound == 404

(* Bounds of the model *)

\* number of tool-request / unrecognized replies the Model Gateway hands out
\* in a run of the service (the loop specification uses MaxCycles + 1)
MaxToolReplies == 1

\* number of trailing turns of a session's history that are kept
HistWindow == 2

----------------------------------------------------------------------------
(* Names *)

Nil == "nil"
Agents == {"float", "math"}
Handlers == {"h1", "h2"}
Calls == {"main"} \cup Handlers

\* tool names: the two declared tools (main.go:26, main.go:494) and a name
\* no dispatch function knows
PerformCalculation == "performCalculation"
CallFloatAgent == "callFloatAgent"
UnknownTool == "unknownTool"
ToolNames == {PerformCalculation, CallFloatAgent, UnknownTool}

----------------------------------------------------------------------------
(* Strings: sequences of one-character strings *)

Quote == "\""
Backslash == "\\"
Newline == "\n"

RECURSIVE Concat(_)
\* concatenation of a sequence of strings
Concat(ss) == IF ss = << >> THEN << >> ELSE Head(ss) \o Concat(Tail(ss))

Digits == <<"0", "1", "2", "3", "4", "5", "6", "7", "8", "9">>
IsDigit(ch) == \E i \in 1..10 : Digits[i] = ch
DigitVal(ch) == (CHOOSE i \in 1..10 : Digits[i] = ch) - 1

----------------------------------------------------------------------------
(* encoding/json, as far as request{Input} and response{Content} use it *)

\* a string written between quotes with nothing escaped
EscapeCharNone(ch) == <<ch>>

\* encoding/json writes a string value between quotes, escaping the quote,
\* the backslash and (HTML escaping is on by default) <, > and &
EscapeChar(ch) ==
    CASE ch = Quote -> <<Backslash, Quote>>
      [] ch = Backslash -> <<Backslash, Backslash>>
      [] ch = "<" -> <<Backslash, "u", "0", "0", "3", "c">>
      [] ch = ">" -> <<Backslash, "u", "0", "0", "3", "e">>
      [] ch = "&" -> <<Backslash, "u", "0", "0", "2", "6">>
      [] OTHER -> <<ch>>

JsonString(s) ==
    <<Quote>> \o Concat([i \in 1..Len(s) |-> EscapeChar(s[i])]) \o <<Quote>>

InputKey == <<"i", "n", "p", "u", "t">>
ContentKey == <<"c", "o", "n", "t", "e", "n", "t">>

\* json.Marshal of a struct with one string field tagged key
MarshalField(key, val) ==
    <<"{">> \o JsonString(key) \o <<":">> \o JsonString(val) \o <<"}">>

\* the character a \uXXXX escape stands for (the ones EscapeChar writes)
UnicodeEscape(h) ==
    CASE h = <<"0", "0", "3", "c">> -> "<"
      [] h = <<"0", "0", "3", "e">> -> ">"
      [] h = <<"0", "0", "2", "6">> -> "&"
      [] OTHER -> Nil

RECURSIVE ScanString(_, _, _)
\* reads the rest of a JSON string of b from position i (after the opening
\* quote), acc the characters so far: [ok, val, next]
ScanString(b, i, acc) ==
    IF i > Len(b) THEN [ok |-> FALSE, val |-> << >>, next |-> i]
    ELSE IF b[i] = Quote THEN [ok |-> TRUE, val |-> acc, next |-> i + 1]
    ELSE IF b[i] = Newline THEN [ok |-> FALSE, val |-> << >>, next |-> i]
    ELSE IF b[i] = Backslash THEN
        IF i + 1 > Len(b) THEN [ok |-> FALSE, val |-> << >>, next |-> i]
        ELSE IF b[i + 1] \in {Quote, Backslash} THEN
            ScanString(b, i + 2, Append(acc, b[i + 1]))
        ELSE IF b[i + 1] = "u" /\ i + 5 <= Len(b)
                /\ UnicodeEscape(SubSeq(b, i + 2, i + 5)) # Nil THEN
            ScanString(b, i + 6, Append(acc, UnicodeEscape(SubSeq(b, i + 2, i + 5))))
        ELSE [ok |-> FALSE, val |-> << >>, next |-> i]
    ELSE ScanString(b, i + 1, Append(acc, b[i]))

\* a JSON string starting at position i of b
ParseString(b, i) ==
    IF i <= Len(b) /\ b[i] = Quote THEN ScanString(b, i + 1, << >>)
    ELSE [ok |-> FALSE, val |-> << >>, next |-> i]

RECURSIVE SkipSpace(_, _)
SkipSpace(b, i) ==
    IF i <= Len(b) /\ b[i] \in {Newline, " "} THEN SkipSpace(b, i + 1) ELSE i

JsonNull == <<"n", "u", "l", "l">>

\* the first JSON value of b decoded into a struct whose one string field is
\* tagged key: [ok, val, next].  null leaves the struct untouched, an object
\* without the key leaves the field empty, a key of another name is skipped,
\* anything else (a value that is no object, a member value that is no
\* string, a syntax error) is an error.
DecodeValue(b, key) ==
    LET bad == [ok |-> FALSE, val |-> << >>, next |-> 0]
        i0 == SkipSpace(b, 1)
    IN  IF i0 + 3 <= Len(b) /\ SubSeq(b, i0, i0 + 3) = JsonNull
        THEN [ok |-> TRUE, val |-> << >>, next |-> i0 + 4]
        ELSE IF i0 > Len(b) \/ b[i0] # "{" THEN bad
        ELSE IF i0 + 1 <= Len(b) /\ b[i0 + 1] = "}"
        THEN [ok |-> TRUE, val |-> << >>, next |-> i0 + 2]
        ELSE LET k == ParseString(b, i0 + 1)
             IN  IF ~k.ok \/ k.next > Len(b) \/ b[k.next] # ":" THEN bad
                 ELSE LET v == ParseString(b, k.next + 1)
                      IN  IF ~v.ok \/ v.next > Len(b) \/ b[v.next] # "}" THEN bad
                          ELSE [ok |-> TRUE,
                                val |-> IF k.val = key THEN v.val ELSE << >>,
                                next |-> v.next + 1]

\* main.go:349  json.NewDecoder(req.Body).Decode(&reqBody): the first value
\* of the stream; what follows it is not read
DecoderDecode(b, key) ==
    LET r == DecodeValue(b, key) IN [ok |-> r.ok, val |-> r.val]

\* main.go:157, 553  json.Unmarshal(respDat, &response): the whole input must
\* be one value (white space may follow)
Unmarshal(b, key) ==
    LET r == DecodeValue(b, key)
    IN  IF r.ok /\ SkipSpace(b, r.next) > Len(b)
        THEN [ok |-> TRUE, val |-> r.val]
        ELSE [ok |-> FALSE, val |-> << >>]

\* main.go:367  json.NewEncoder(res).Encode(response): Marshal plus a newline
EncoderEncode(key, val) == MarshalField(key, val) \o <<Newline>>

----------------------------------------------------------------------------
(* The calc tool: strconv.ParseFloat, float64 arithmetic, FormatFloat.     *)
(* A float64 is [cls, neg, n, d]: a finite value (-1)^neg * n/d in lowest  *)
(* terms, an infinity, or NaN.  The operands the model draws are dyadic    *)
(* with a few bits, on which float64 arithmetic is exact.                  *)

RECURSIVE Gcd(_, _)
Gcd(a, b) == IF b = 0 THEN a ELSE Gcd(b, a % b)

Fin(neg, n, d) ==
    LET g == Gcd(n, d)
    IN  [cls |-> "fin", neg |-> neg, n |-> n \div g, d |-> d \div g]
Inf(neg) == [cls |-> "inf", neg |-> neg, n |-> 0, d |-> 1]
NaN == [cls |-> "nan", neg |-> FALSE, n |-> 0, d |-> 1]
Zero == Fin(FALSE, 0, 1)

RECURSIVE Pow10(_)
Pow10(k) == IF k = 0 THEN 1 ELSE 10 * Pow10(k - 1)

RECURSIVE DigitsVal(_, _)
\* the number a string of digits writes, acc the value so far
DigitsVal(s, acc) ==
    IF s = << >> THEN acc ELSE DigitsVal(Tail(s), 10 * acc + DigitVal(Head(s)))

\* the strings strconv.ParseFloat reads as an infinity or as not-a-number
InfText == <<"I", "n", "f">>
NaNText == <<"N", "a", "N">>

\* strconv.ParseFloat(s, 64) accepts s: a decimal literal [+-]digits[.digits]
\* with a digit in it, an optionally signed infinity, or NaN (literals with
\* an exponent or in hexadecimal are not among the operands taken here)
IsNumber(s) ==
    LET signed == s # << >> /\ Head(s) \in {"+", "-"}
        body == IF signed THEN Tail(s) ELSE s
        dots == {i \in 1..Len(body) : body[i] = "."}
    IN  \/ body = InfText
        \/ s = NaNText
        \/ /\ Cardinality(dots) <= 1
           /\ \E i \in 1..Len(body) : IsDigit(body[i])
           /\ \A i \in 1..Len(body) : IsDigit(body[i]) \/ body[i] = "."

\* strconv.ParseFloat(s, 64) with the error dropped (main.go:52, 53): the
\* value s writes, and 0 for a string that is not accepted
ParseFloat(s) ==
    LET signed == s # << >> /\ Head(s) \in {"+", "-"}
        neg == s # << >> /\ Head(s) = "-"
        body == IF signed THEN Tail(s) ELSE s
        dots == {i \in 1..Len(body) : body[i] = "."}
        dot == IF dots = {} THEN Len(body) + 1 ELSE CHOOSE i \in dots : TRUE
        ip == SubSeq(body, 1, dot - 1)
        fp == SubSeq(body, dot + 1, Len(body))
    IN  IF ~IsNumber(s) THEN Zero
        ELSE IF body = InfText THEN Inf(neg)
        ELSE IF s = NaNText THEN NaN
        ELSE Fin(neg, DigitsVal(ip \o fp, 0), Pow10(Len(fp)))

Neg(x) == [x EXCEPT !.neg = ~x.neg]

\* one + two
FAdd(x, y) ==
    CASE x.cls = "nan" \/ y.cls = "nan" -> NaN
      [] x.cls = "inf" /\ y.cls = "inf" -> IF x.neg = y.neg THEN x ELSE NaN
      [] x.cls = "inf" -> x
      [] y.cls = "inf" -> y
      [] OTHER ->
           LET sx == IF x.neg THEN 0 - x.n ELSE x.n
               sy == IF y.neg THEN 0 - y.n ELSE y.n
               num == sx * y.d + sy * x.d
           IN  IF num = 0 THEN Fin(x.neg /\ y.neg /\ x.n = 0 /\ y.n = 0, 0, 1)
               ELSE IF num < 0 THEN Fin(TRUE, 0 - num, x.d * y.d)
               ELSE Fin(FALSE, num, x.d * y.d)

\* one - two
FSub(x, y) == IF y.cls = "nan" THEN NaN ELSE FAdd(x, Neg(y))

\* one * two
FMul(x, y) ==
    CASE x.cls = "nan" \/ y.cls = "nan" -> NaN
      [] x.cls = "inf" \/ y.cls = "inf" ->
           IF (x.cls = "fin" /\ x.n = 0) \/ (y.cls = "fin" /\ y.n = 0)
           THEN NaN ELSE Inf(x.neg # y.neg)
      [] OTHER -> Fin(x.neg # y.neg, x.n * y.n, x.d * y.d)

\* one / two
FDiv(x, y) ==
    CASE x.cls = "nan" \/ y.cls = "nan" -> NaN
      [] x.cls = "inf" -> IF y.cls = "inf" THEN NaN ELSE Inf(x.neg # y.neg)
      [] y.cls = "inf" -> Fin(x.neg # y.neg, 0, 1)
      [] y.n = 0 -> IF x.n = 0 THEN NaN ELSE Inf(x.neg # y.neg)
      [] OTHER -> Fin(x.neg # y.neg, x.n * y.d, x.d * y.n)

\* a remainder that takes the sign of the divisor (the floored modulo)
FModFloored(x, y) ==
    CASE x.cls = "nan" \/ y.cls = "nan" -> NaN
      [] x.cls = "inf" -> NaN
      [] y.cls = "inf" -> x
      [] y.n = 0 -> NaN
      [] OTHER ->
           LET m == (x.n * y.d) % (y.n * x.d)
           IN  IF m = 0 \/ x.neg = y.neg THEN Fin(y.neg, m, x.d * y.d)
               ELSE Fin(y.neg, y.n * x.d - m, x.d * y.d)

\* math.Mod(one, two): the remainder has the sign of one
FMod(x, y) ==
    CASE x.cls = "nan" \/ y.cls = "nan" -> NaN
      [] x.cls = "inf" -> NaN
      [] y.cls = "inf" -> x
      [] y.n = 0 -> NaN
      [] OTHER -> Fin(x.neg, (x.n * y.d) % (y.n * x.d), x.d * y.d)

\* a dyadic denominator divides a power of ten: the number of decimals
RECURSIVE Decimals(_, _)
Decimals(d, k) == IF Pow10(k) % d = 0 THEN k ELSE Decimals(d, k + 1)

RECURSIVE NatDigits(_)
\* the decimal digits of a natural number
NatDigits(n) ==
    IF n < 10 THEN <<Digits[n + 1]>>
    ELSE Append(NatDigits(n \div 10), Digits[(n % 10) + 1])

RECURSIVE PadLeft(_, _)
PadLeft(s, k) == IF Len(s) >= k THEN s ELSE PadLeft(<<"0">> \o s, k)

\* strconv.FormatFloat(x, 'f', -1, 64): the shortest decimal that reads back
\* as x, which for a value with few bits is its exact decimal expansion
FormatFloat(x) ==
    CASE x.cls = "nan" -> NaNText
      [] x.cls = "inf" -> <<(IF x.neg THEN "-" ELSE "+")>> \o InfText
      [] OTHER ->
           LET k == Decimals(x.d, 0)
               scaled == x.n * (Pow10(k) \div x.d)
               ip == NatDigits(scaled \div Pow10(k))
               fp == PadLeft(NatDigits(scaled % Pow10(k)), k)
           IN  (IF x.neg THEN <<"-">> ELSE << >>)
                 \o ip \o (IF k = 0 THEN << >> ELSE <<".">> \o fp)

\* the switch with a default that leaves the first operand as the result
CalculateDefaultOne(one, two, operator) ==
    CASE operator = <<"+">> -> FAdd(one, two)
      [] operator = <<"-">> -> FSub(one, two)
      [] operator = <<"*">> -> FMul(one, two)
      [] operator = <<"/">> -> FDiv(one, two)
      [] operator = <<"%">> -> FMod(one, two)
      [] OTHER -> one

\* main.go:55-68  the switch on the operator; result starts as 0
Calculate(one, two, operator) ==
    CASE operator = <<"+">> -> FAdd(one, two)
      [] operator = <<"-">> -> FSub(one, two)
      [] operator = <<"*">> -> FMul(one, two)
      [] operator = <<"/">> -> FDiv(one, two)
      [] operator = <<"%">> -> FMod(one, two)
      [] OTHER -> Zero

\* main.go:50-70
performCalculation(valueOne, valueTwo, operator) ==
    FormatFloat(Calculate(ParseFloat(valueOne), ParseFloat(valueTwo), operator))

----------------------------------------------------------------------------
(* Replies of the Model Gateway and the tool handlers *)

NoArgs == [x \in {} |-> << >>]

\* resp.Candidates[0].Content.Parts[0] (main.go:287): a genai.FunctionCall,
\* a genai.Text, or a part of another type
TextPart(t) == [kind |-> "text", name |-> Nil, args |-> NoArgs, text |-> t]
CallPart(n, a) == [kind |-> "call", name |-> n, args |-> a, text |-> << >>]
OtherPart == [kind |-> "other", name |-> Nil, args |-> NoArgs, text |-> << >>]
NoPart == [kind |-> Nil, name |-> Nil, args |-> NoArgs, text |-> << >>]

\* the texts and tool requests the model's gateway is taken to produce
Texts == {<<"5">>, <<"<", Quote>>}
CalcArgs(one, two, op) ==
    [x \in {"valueOne", "valueTwo", "operator"} |->
        CASE x = "valueOne" -> one [] x = "valueTwo" -> two [] OTHER -> op]
MessageArgs(m) == [x \in {"message"} |-> m]
ToolRequests ==
    { CallPart(PerformCalculation, CalcArgs(<<"2">>, <<"2", ".", "5">>, <<"*">>)),
      CallPart(PerformCalculation, CalcArgs(<<"1">>, <<"0">>, <<"^">>)),
      CallPart(PerformCalculation,
               [x \in {"valueOne", "valueTwo"} |-> <<"1">>]),
      CallPart(CallFloatAgent, MessageArgs(<<"<", "2">>)),
      CallPart(CallFloatAgent, NoArgs),
      CallPart(UnknownTool, NoArgs) }
Parts == {TextPart(t) : t \in Texts} \cup ToolRequests \cup {OtherPart}

\* outcome of a tool handler: a result string, an error returned to
\* callAgent, a call that blocks on the remote agent, or log.Fatalln, which
\* ends the process.  validated: the number of arguments looked up;
\* computed: whether the tool proper was run.
ToolOk(r, v) ==
    [out |-> "ok", result |-> r, err |-> Nil, validated |-> v, computed |-> TRUE]
ToolErr(e, v) ==
    [out |-> "err", result |-> << >>, err |-> e, validated |-> v, computed |-> FALSE]
ToolFatal(v) ==
    [out |-> "fatal", result |-> << >>, err |-> Nil, validated |-> v, computed |-> FALSE]
ToolRemote(m, v) ==
    [out |-> "remote", result |-> m, err |-> Nil, validated |-> v, computed |-> TRUE]

Has(args, x) == x \in DOMAIN args

\* the calc tool's handler without the check of the name
callFloatToolAnyName(funcall) ==
    IF ~Has(funcall.args, "valueOne") THEN ToolFatal(1)
    ELSE IF ~Has(funcall.args, "valueTwo") THEN ToolFatal(2)
    ELSE IF ~Has(funcall.args, "operator") THEN ToolFatal(3)
    ELSE ToolOk(performCalculation(funcall.args["valueOne"],
                                   funcall.args["valueTwo"],
                                   funcall.args["operator"]), 3)

\* main.go:86-112
callFloatTool(funcall) ==
    IF funcall.name = PerformCalculation
    THEN IF ~Has(funcall.args, "valueOne") THEN ToolFatal(1)
         ELSE IF ~Has(funcall.args, "valueTwo") THEN ToolFatal(2)
         ELSE IF ~Has(funcall.args, "operator") THEN ToolFatal(3)
         ELSE ToolOk(performCalculation(funcall.args["valueOne"],
                                        funcall.args["valueTwo"],
                                        funcall.args["operator"]), 3)
    ELSE ToolErr("unhandled", 0)

\* main.go:579-603, up to the call of callFloatAgent (its outcome is
\* ProxyReceive's)
callMathTool(funcall) ==
    IF funcall.name = CallFloatAgent
    THEN IF ~Has(funcall.args, "message") THEN ToolErr("missing", 1)
         ELSE ToolRemote(funcall.args["message"], 1)
    ELSE ToolErr("unhandled", 0)

\* agent.toolCall: main.go:77 (float), main.go:570 (math)
toolCall(a, funcall) ==
    IF a = "float" THEN callFloatTool(funcall) ELSE callMathTool(funcall)

----------------------------------------------------------------------------
(* State *)

VARIABLES
    prog,       \* the main() that runs: "v1" (main.go:175) or "v2" (main.go:611)
    alive,      \* the process runs (FALSE after os.Exit or main's return)
    mainpc,     \* position of main()
    srv,        \* the listener goroutine: "off", "starting", "up"
    inited,     \* agents built by initAgent (agentFloat, agentMath are set)
    session,    \* agent.session: Nil or the agent whose model started the chat
    history,    \* per agent, the trailing turns of its session's History
    call,       \* per caller, the activation of callAgent
    http,       \* per connection of the service, the request and its response
    quota,      \* tool-request / unrecognized replies the gateway may still give
    menu        \* the replies the Model Gateway can give in this run

vars == <<prog, alive, mainpc, srv, inited, session, history, call, http, quota, menu>>

NoRet == [err |-> Nil, text |-> << >>]
NoMsg == [kind |-> Nil, name |-> Nil, result |-> << >>]

\* an activation of callAgent.  pc, agent, sess, message, idx, resp, part,
\* result are the frame; ret is what it returned; the rest records what the
\* activation did: sent (the last message given to SendMessage), the numbers
\* of sends, replies, tool requests among the replies, toolCall invocations,
\* toolCall invocations that returned a result, arguments looked up and tool
\* computations, whether a reply was terminal text, and the reason it failed.
IdleCall ==
    [pc |-> "idle", agent |-> Nil, sess |-> Nil, message |-> << >>, idx |-> 0,
     resp |-> NoPart, part |-> NoPart, result |-> << >>, ret |-> NoRet,
     sent |-> NoMsg, nSend |-> 0, nReply |-> 0, nReq |-> 0, nTool |-> 0,
     nToolOk |-> 0, nValid |-> 0, nComp |-> 0, sawText |-> FALSE,
     failed |-> Nil, conn |-> Nil]

\* main.go:275  callAgent(session, message) on agent a is entered
NewCall(a, sess, message) ==
    [IdleCall EXCEPT !.pc = "send0", !.agent = a, !.sess = sess,
                     !.message = message]

\* a connection of the service: the request as sent (st "recv"), then the
\* handler running callAgent (st "calling"), the response written (st
\* "done"), or the handler's goroutine gone in a panic (st "panic")
FreeConn ==
    [st |-> "free", from |-> Nil, method |-> Nil, path |-> Nil, ctype |-> Nil,
     body |-> << >>, status |-> 0, rbody |-> << >>, rtype |-> Nil, at |-> Nil]

Request(from, method, path, ctype, body) ==
    [FreeConn EXCEPT !.st = "recv", !.from = from, !.method = method,
                     !.path = path, !.ctype = ctype, !.body = body]

JsonType == "application/json"
UserMessage == <<"p", "i">>

\* requests of callers other than the proxy
ClientRequests ==
    { Request("ext", "POST", "/agent", JsonType, MarshalField(InputKey, UserMessage)),
      Request("ext", "GET", "/agent", JsonType, MarshalField(InputKey, UserMessage)),
      Request("ext", "POST", "/agent", "application/json; charset=utf-8",
              MarshalField(InputKey, UserMessage)),
      Request("ext", "POST", "/agent", "", MarshalField(InputKey, UserMessage)),
      Request("ext", "POST", "/agent", JsonType, <<"{", Quote, "i">>),
      Request("ext", "GET", "/agent", "text/plain", <<"{", Quote, "i">>),
      Request("ext", "POST", "/agent", "text/plain", <<"{", Quote, "i">>),
      Request("ext", "POST", "/", JsonType, MarshalField(InputKey, UserMessage)) }

Programs == {"v1", "v2"}

InitWith(progs, q, parts) ==
    /\ prog \in progs
    /\ alive = TRUE
    /\ mainpc = "start"
    /\ srv = "off"
    /\ inited = {}
    /\ session = [a \in Agents |-> Nil]
    /\ history = [a \in Agents |-> << >>]
    /\ call = [c \in Calls |-> IdleCall]
    /\ http = [h \in Handlers |-> FreeConn]
    /\ quota = q
    /\ menu = parts

\* the service: the gateway answers with text or a tool request
ServiceParts ==
    { TextPart(<<"<", Quote>>),
      CallPart(PerformCalculation, CalcArgs(<<"2">>, <<"2", ".", "5">>, <<"*">>)),
      CallPart(PerformCalculation,
               [x \in {"valueOne", "valueTwo"} |-> <<"1">>]),
      CallPart(CallFloatAgent, MessageArgs(<<"<", "2">>)),
      CallPart(CallFloatAgent, NoArgs) }
Init == InitWith(Programs, MaxToolReplies, ServiceParts)
\* the loop: every shape of reply, enough of them to use up the cycles
InitLoop == InitWith({"v1"}, MaxCycles + 1, Parts)

----------------------------------------------------------------------------
(* The session's history (genai.ChatSession.History) *)

Turn(c, role, kind, name) == [by |-> c, role |-> role, kind |-> kind, name |-> name]

\* append, keeping the trailing HistWindow turns
Push(h, t) ==
    LET s == Append(h, t)
    IN  IF Len(s) > HistWindow THEN SubSeq(s, Len(s) - HistWindow + 1, Len(s)) ELSE s

----------------------------------------------------------------------------
(* callAgent, main.go:275-323, one action per step of an activation c *)

\* main.go:285  the loop condition
LoopGuard(idx) == idx < MaxCycles

\* the loop index left as it is
NextIdxStuck(idx) == idx

\* main.go:285  idx++
NextIdx(idx) == idx + 1

\* main.go:290  funcall, ok := part.(genai.FunctionCall)
IsFunctionCall(part) == part.kind = "call"

\* main.go:313  content, ok := part.(genai.Text)
IsText(part) == part.kind = "text"

\* return "", err
ReturnErr(r, e) == [r EXCEPT !.pc = "done", !.ret = [err |-> e, text |-> << >>]]

\* main.go:317  return string(content), nil
ReturnText(r, part) ==
    [r EXCEPT !.pc = "done", !.ret = [err |-> "none", text |-> part.text]]

\* main.go:300-305  the genai.FunctionResponse handed to SendMessage
FunctionResponse(funcall, result) ==
    [kind |-> "result", name |-> funcall.name, result |-> result]

\* main.go:278  session.SendMessage(agent.ctx, genai.Text(message)) is called.
\* On a nil session the call dereferences nil: the goroutine panics (the
\* process dies when it is main's; net/http recovers a handler's and drops
\* the connection without a response).
SendInitial(c) ==
    /\ alive
    /\ call[c].pc = "send0"
    /\ IF call[c].sess = Nil
       THEN /\ call' = [call EXCEPT ![c].pc = "panic"]
            /\ alive' = (c # "main")
            /\ mainpc' = IF c = "main" THEN "panic" ELSE mainpc
            /\ http' = IF c = "main" THEN http ELSE [http EXCEPT ![c].st = "panic"]
            /\ UNCHANGED history
       ELSE /\ call' = [call EXCEPT ![c].pc = "wait0",
                           ![c].nSend = @ + 1,
                           ![c].sent = [kind |-> "text", name |-> Nil,
                                        result |-> call[c].message]]
            /\ history' = [history EXCEPT ![call[c].agent] =
                              Push(@, Turn(c, "user", "text", Nil))]
            /\ UNCHANGED <<alive, mainpc, http>>
    /\ UNCHANGED <<prog, srv, inited, session, quota, menu>>

\* SendMessage returns reply r (main.go:278, 300): resp is assigned in the
\* frame
ReplyStep(f, r) ==
    [f EXCEPT !.resp = r,
              !.nReply = @ + 1,
              !.nReq = IF r.kind = "call" THEN @ + 1 ELSE @,
              !.sawText = @ \/ r.kind = "text",
              !.pc = IF f.pc = "wait0" THEN "loop" ELSE "text"]

GatewayReply(c) ==
    /\ alive
    /\ call[c].pc \in {"wait0", "waitres"}
    /\ \E r \in menu :
         /\ r.kind = "text" \/ quota > 0
         /\ quota' = IF r.kind = "text" THEN quota ELSE quota - 1
         /\ call' = [call EXCEPT ![c] = ReplyStep(call[c], r)]
         /\ history' = [history EXCEPT ![call[c].agent] =
                           Push(@, Turn(c, "model", r.kind, r.name))]
    /\ UNCHANGED <<prog, alive, mainpc, srv, inited, session, http, menu>>

\* SendMessage returns an error (main.go:279-282, 306-309)
GatewayError(c) ==
    /\ alive
    /\ call[c].pc \in {"wait0", "waitres"}
    /\ call' = [call EXCEPT ![c] =
                  ReturnErr([call[c] EXCEPT !.failed = "send"], "send")]
    /\ UNCHANGED <<prog, alive, mainpc, srv, inited, session, history, http, quota, menu>>

\* main.go:285-291  the loop test, the part of the current reply and the
\* type switch on it; main.go:322 when the test fails
LoopTopStep(r) ==
    IF LoopGuard(r.idx)
    THEN [r EXCEPT !.part = r.resp,
                   !.pc = IF IsFunctionCall(r.resp) THEN "tool" ELSE "text"]
    ELSE ReturnErr(r, "cycles")

\* a tool handler's error logged but not returned: the loop goes on and
\* sends the empty result
AfterToolContinues(r, o) ==
    LET counted == [r EXCEPT !.nTool = @ + 1,
                             !.nValid = @ + o.validated,
                             !.nComp = IF o.computed THEN @ + 1 ELSE @]
    IN  CASE o.out = "ok" ->
               [counted EXCEPT !.result = o.result, !.nToolOk = @ + 1, !.pc = "sendres"]
          [] o.out = "err" -> [counted EXCEPT !.failed = "tool", !.pc = "sendres"]
          [] o.out = "remote" -> [counted EXCEPT !.result = o.result, !.pc = "rpc"]
          [] OTHER -> [counted EXCEPT !.pc = "fatal"]

\* what main.go:293-297 makes of the tool handler's outcome o
AfterTool(r, o) ==
    LET counted == [r EXCEPT !.nTool = @ + 1,
                             !.nValid = @ + o.validated,
                             !.nComp = IF o.computed THEN @ + 1 ELSE @]
    IN  CASE o.out = "ok" ->
               [counted EXCEPT !.result = o.result, !.nToolOk = @ + 1, !.pc = "sendres"]
          [] o.out = "err" -> ReturnErr([counted EXCEPT !.failed = "tool"], o.err)
          [] o.out = "remote" -> [counted EXCEPT !.result = o.result, !.pc = "rpc"]
          [] OTHER -> [counted EXCEPT !.pc = "fatal"]

\* main.go:293  result, err := agent.toolCall(funcall)
ToolStep(r) == AfterTool(r, toolCall(r.agent, r.part))

\* the text check with the result of the type assertion not looked at:
\* whatever the part is, its (empty) text is returned
TextStepUnchecked(r) == ReturnText(r, r.part)

\* main.go:313-319  the text check on part, then idx++
TextStep(r) ==
    IF IsText(r.part) THEN ReturnText(r, r.part)
    ELSE [r EXCEPT !.idx = NextIdx(r.idx), !.pc = "loop"]

\* the send of a tool result whose payload was left empty
SendResultStepEmpty(r) ==
    [r EXCEPT !.pc = "waitres", !.nSend = @ + 1,
              !.sent = FunctionResponse(r.part, << >>)]

\* main.go:300  SendMessage(FunctionResponse) is called: the frame's side
SendResultStep(r) ==
    [r EXCEPT !.pc = "waitres", !.nSend = @ + 1,
              !.sent = FunctionResponse(r.part, r.result)]

LoopTop(c) ==
    /\ alive
    /\ call[c].pc = "loop"
    /\ call' = [call EXCEPT ![c] = LoopTopStep(call[c])]
    /\ UNCHANGED <<prog, alive, mainpc, srv, inited, session, history, http, quota, menu>>

ToolCall(c) ==
    /\ alive
    /\ call[c].pc = "tool"
    /\ call' = [call EXCEPT ![c] = ToolStep(call[c])]
    /\ alive' = (call'[c].pc # "fatal")
    /\ UNCHANGED <<prog, mainpc, srv, inited, session, history, http, quota, menu>>

SendResult(c) ==
    /\ alive
    /\ call[c].pc = "sendres"
    /\ call' = [call EXCEPT ![c] = SendResultStep(call[c])]
    /\ history' = [history EXCEPT ![call[c].agent] =
                      Push(@, Turn(c, "user", "result", call[c].part.name))]
    /\ UNCHANGED <<prog, alive, mainpc, srv, inited, session, http, quota, menu>>

TextCheck(c) ==
    /\ alive
    /\ call[c].pc = "text"
    /\ call' = [call EXCEPT ![c] = TextStep(call[c])]
    /\ UNCHANGED <<prog, alive, mainpc, srv, inited, session, history, http, quota, menu>>

\* the steps of an activation that touch nothing but its own frame
LocalStep(r) ==
    CASE r.pc = "loop" -> LoopTopStep(r)
      [] r.pc = "tool" -> ToolStep(r)
      [] r.pc = "text" -> TextStep(r)
      [] OTHER -> r

RECURSIVE RunLocal(_)
\* the frame after the activation has run up to its next send, its call of
\* the remote agent, its return or the end of the process
RunLocal(r) ==
    IF r.pc \in {"loop", "tool", "text"} THEN RunLocal(LocalStep(r)) ELSE r

\* the process has ended: of its goroutines only the frame of c, the one
\* that ended it, is kept to tell how; its connections are gone
Ended(calls, c) == [x \in Calls |-> IF x = c THEN calls[x] ELSE IdleCall]
NoConns == [h \in Handlers |-> FreeConn]

\* a reply of the gateway and main.go:285-319 after it, taken as one step:
\* SendMessage returns the reply and the activation runs its frame-local
\* steps up to its next send, its call of the remote agent, its return or
\* the end of the process
Receive(c) ==
    /\ alive
    /\ call[c].pc \in {"wait0", "waitres"}
    /\ \E r \in menu :
         /\ r.kind = "text" \/ quota > 0
         /\ quota' = IF r.kind = "text" THEN quota ELSE quota - 1
         /\ history' = [history EXCEPT ![call[c].agent] =
                           Push(@, Turn(c, "model", r.kind, r.name))]
         /\ LET f == RunLocal(ReplyStep(call[c], r))
            IN  IF f.pc = "fatal"
                THEN /\ alive' = FALSE
                     /\ call' = Ended([call EXCEPT ![c] = f], c)
                     /\ http' = NoConns
                ELSE /\ call' = [call EXCEPT ![c] = f]
                     /\ UNCHANGED <<alive, http>>
    /\ UNCHANGED <<prog, mainpc, srv, inited, session, menu>>

----------------------------------------------------------------------------
(* The Agent Service Endpoint: runAgent and handleAgentRequest,            *)
(* main.go:334-374                                                         *)

\* http.Error(res, "Bad Request", http.StatusBadRequest) writes this body
BadRequestBody == <<"B", "a", "d", " ", "R", "e", "q", "u", "e", "s", "t", Newline>>
\* the default mux's answer to a path nothing is registered for
NotFoundBody ==
    <<"4", "0", "4", " ", "p", "a", "g", "e", " ", "n", "o", "t", " ",
      "f", "o", "u", "n", "d", Newline>>
PlainType == "text/plain; charset=utf-8"

\* main.go:372  http.HandleFunc("/agent", ...): the pattern matches this one path
Routed(path) == path = "/agent"

\* the checks with the body decoded first, the method and the content type
\* looked at after
RejectedAtBodyFirst(rq) ==
    IF ~DecoderDecode(rq.body, InputKey).ok THEN "body"
    ELSE IF rq.method # "POST" THEN "method"
    ELSE IF rq.ctype = "" \/ rq.ctype # JsonType THEN "ctype"
    ELSE "ok"

\* main.go:337-353  the checks in their order: the first that rejects the
\* request, or "ok"
RejectedAt(rq) ==
    IF rq.method # "POST" THEN "method"
    ELSE IF rq.ctype = "" \/ rq.ctype # JsonType THEN "ctype"
    ELSE IF ~DecoderDecode(rq.body, InputKey).ok THEN "body"
    ELSE "ok"

\* a response is written on connection record x
Respond(x, status, rtype, rbody, at) ==
    [x EXCEPT !.st = "done", !.status = status, !.rtype = rtype,
              !.rbody = rbody, !.at = at]

\* main.go:357-367  the response made of what callAgent returned
HandlerResponse(x, ret) ==
    IF ret.err # "none"
    THEN Respond(x, StatusBadRequest, PlainType, BadRequestBody, "loop")
    ELSE Respond(x, StatusOK, JsonType, EncoderEncode(ContentKey, ret.text), "end")

\* the mux routes request rq; main.go:334-356: handleAgentRequest checks it
\* and enters callAgent on the float agent's current session.  conn is the
\* connection after that, frame the activation of callAgent (if any).
Served(rq) ==
    LET at == RejectedAt(rq)
    IN  IF ~Routed(rq.path)
        THEN [conn |-> Respond(rq, StatusNotFound, PlainType, NotFoundBody, "mux"),
              frame |-> IdleCall]
        ELSE IF at # "ok"
        THEN [conn |-> Respond(rq, StatusBadRequest, PlainType, BadRequestBody, at),
              frame |-> IdleCall]
        ELSE [conn |-> [rq EXCEPT !.st = "calling"],
              frame |-> NewCall("float", session["float"],
                                DecoderDecode(rq.body, InputKey).val)]

\* a caller other than the proxy connects and sends a request, which the
\* service takes up to the entry of callAgent
HandleRequest(h) ==
    /\ alive
    /\ srv = "up"
    /\ http[h].st = "free"
    /\ \E rq \in ClientRequests :
         /\ http' = [http EXCEPT ![h] = Served(rq).conn]
         /\ call' = [call EXCEPT ![h] = Served(rq).frame]
    /\ UNCHANGED <<prog, alive, mainpc, srv, inited, session, history, quota, menu>>

\* main.go:356-367  callAgent has returned to the handler
HandleReturn(h) ==
    /\ alive
    /\ http[h].st = "calling"
    /\ call[h].pc = "done"
    /\ http' = [http EXCEPT ![h] = HandlerResponse(@, call[h].ret)]
    /\ UNCHANGED <<prog, alive, mainpc, srv, inited, session, history, call, quota, menu>>

\* the caller has its response, or sees the connection dropped
Collect(h) ==
    /\ alive
    /\ http[h].st \in {"done", "panic"}
    /\ http[h].from = "ext"
    /\ http' = [http EXCEPT ![h] = FreeConn]
    /\ call' = [call EXCEPT ![h] = IdleCall]
    /\ UNCHANGED <<prog, alive, mainpc, srv, inited, session, history, quota, menu>>

\* main.go:371-374  the listener goroutine registers the handler and listens
Listen ==
    /\ alive
    /\ srv = "starting"
    /\ srv' = "up"
    /\ UNCHANGED <<prog, alive, mainpc, inited, session, history, call, http, quota, menu>>

----------------------------------------------------------------------------
(* The Remote Invocation Proxy, callFloatAgent (main.go:510-559) *)

\* main.go:533  the path of the URL posted to
ProxyPath == "/agent"

\* main.go:115-163  floatAgentTool, the proxy of the first generation, posts
\* to the root of the endpoint (main.go:137)
FloatAgentToolPath == "/"

\* main.go:524-537  the POST the proxy builds for message
ProxyRequest(from, path, message) ==
    Request(from, "POST", path, JsonType, MarshalField(InputKey, message))

\* the proxy with the error of json.Unmarshal dropped: the content decoded
\* so far (none) is the result
ProxyResultAnyBody(respDat) ==
    LET r == Unmarshal(respDat, ContentKey)
    IN  IF r.ok THEN ToolOk(r.val, 1) ELSE ToolOk(<< >>, 1)

\* main.go:547-558  the tool result made of the response body: the status
\* is not looked at
ProxyResult(respDat) ==
    LET r == Unmarshal(respDat, ContentKey)
    IN  IF r.ok THEN ToolOk(r.val, 1) ELSE ToolErr("decode", 1)

\* main.go:541  client.Do(req): the connection is made, the request is sent
\* and the service takes it up to the entry of callAgent
ProxySend(c, h) ==
    /\ alive
    /\ call[c].pc = "rpc"
    /\ srv = "up"
    /\ http[h].st = "free"
    /\ LET s == Served(ProxyRequest(c, ProxyPath, call[c].result))
       IN  /\ http' = [http EXCEPT ![h] = s.conn]
           /\ call' = [call EXCEPT ![c].pc = "rpcwait", ![c].conn = h,
                                   ![h] = s.frame]
    /\ UNCHANGED <<prog, alive, mainpc, srv, inited, session, history, quota, menu>>

\* main.go:541-544  client.Do fails: nobody listens, or the connection is
\* dropped without a response (the handler panicked)
ProxyFail(c) ==
    /\ alive
    /\ \/ call[c].pc = "rpc" /\ srv # "up"
       \/ call[c].pc = "rpcwait" /\ http[call[c].conn].st = "panic"
    /\ call' = [h \in Calls |->
                  IF h = c THEN ReturnErr([call[c] EXCEPT !.failed = "tool",
                                                         !.conn = Nil], "transport")
                  ELSE IF h = call[c].conn THEN IdleCall
                  ELSE call[h]]
    /\ http' = [h \in Handlers |-> IF h = call[c].conn THEN FreeConn ELSE http[h]]
    /\ UNCHANGED <<prog, alive, mainpc, srv, inited, session, history, quota, menu>>

\* main.go:545-558, 592-602  the response is read and decoded, callMathTool
\* returns
ProxyReceive(c) ==
    /\ alive
    /\ call[c].pc = "rpcwait"
    /\ http[call[c].conn].st = "done"
    /\ LET h == call[c].conn
           o == ProxyResult(http[h].rbody)
       IN  /\ call' = [x \in Calls |->
                         IF x = c
                         THEN IF o.out = "ok"
                              THEN [call[c] EXCEPT !.result = o.result,
                                                   !.nToolOk = @ + 1,
                                                   !.conn = Nil,
                                                   !.pc = "sendres"]
                              ELSE ReturnErr([call[c] EXCEPT !.failed = "tool",
                                                             !.conn = Nil], o.err)
                         ELSE IF x = h THEN IdleCall
                         ELSE call[x]]
           /\ http' = [http EXCEPT ![h] = FreeConn]
    /\ UNCHANGED <<prog, alive, mainpc, srv, inited, session, history, quota, menu>>

----------------------------------------------------------------------------
(* main(): main.go:175-211 ("v1") and main.go:611-658 ("v2") *)

\* main.go:270  the model whose StartChat makes agent a's session
newSession(a) == "float"

\* the agent main() calls: main.go:205 (agentFloat), main.go:651 (agentMath)
MainAgent == IF prog = "v1" THEN "float" ELSE "math"

\* main.go:184, 620  initFloatAgent
MainInitFloat ==
    /\ alive
    /\ mainpc = "start"
    /\ inited' = inited \cup {"float"}
    /\ mainpc' = IF prog = "v1" THEN "spawn" ELSE "newsessF"
    /\ UNCHANGED <<prog, alive, srv, session, history, call, http, quota, menu>>

\* main.go:199  go agentFloat.runAgent(...);  main.go:636  agentFloat.RunAgent(...)
MainRunAgent ==
    /\ alive
    /\ mainpc = "spawn"
    /\ srv' = "starting"
    /\ mainpc' = IF prog = "v1" THEN "newsessF" ELSE "initM"
    /\ UNCHANGED <<prog, alive, inited, session, history, call, http, quota, menu>>

\* main.go:203, 635  agentFloat.newSession()
MainNewSessionFloat ==
    /\ alive
    /\ mainpc = "newsessF"
    /\ session' = [session EXCEPT !["float"] = newSession("float")]
    /\ history' = [history EXCEPT !["float"] = << >>]
    /\ mainpc' = IF prog = "v1" THEN "call" ELSE "spawn"
    /\ UNCHANGED <<prog, alive, srv, inited, call, http, quota, menu>>

\* main.go:642  initMathAgent
MainInitMath ==
    /\ alive
    /\ mainpc = "initM"
    /\ inited' = inited \cup {"math"}
    /\ mainpc' = "newsessM"
    /\ UNCHANGED <<prog, alive, srv, session, history, call, http, quota, menu>>

\* main.go:649  agentMath.NewSession()
MainNewSessionMath ==
    /\ alive
    /\ mainpc = "newsessM"
    /\ session' = [session EXCEPT !["math"] = newSession("math")]
    /\ history' = [history EXCEPT !["math"] = << >>]
    /\ mainpc' = "call"
    /\ UNCHANGED <<prog, alive, srv, inited, call, http, quota, menu>>

\* main.go:205, 651  callAgent is entered from main()
MainCall ==
    /\ alive
    /\ mainpc = "call"
    /\ call' = [call EXCEPT !["main"] =
                  NewCall(MainAgent, session[MainAgent], UserMessage)]
    /\ mainpc' = "wait"
    /\ UNCHANGED <<prog, alive, srv, inited, session, history, http, quota, menu>>

\* main.go:206-211, 653-658  log.Fatalln on an error, else main returns:
\* either way the process ends
MainReturn ==
    /\ alive
    /\ mainpc = "wait"
    /\ call["main"].pc = "done"
    /\ mainpc' = IF call["main"].ret.err # "none" THEN "fatal" ELSE "exit"
    /\ alive' = FALSE
    /\ call' = Ended(call, "main")
    /\ http' = NoConns
    /\ UNCHANGED <<prog, srv, inited, session, history, quota, menu>>

----------------------------------------------------------------------------
(* Specifications *)

\* one activation's steps
CallStep(c) ==
    \/ SendInitial(c)
    \/ GatewayReply(c)
    \/ GatewayError(c)
    \/ LoopTop(c)
    \/ ToolCall(c)
    \/ SendResult(c)
    \/ TextCheck(c)

\* the first program, nobody calling its endpoint: main's callAgent alone
NextLoop ==
    \/ MainInitFloat
    \/ MainRunAgent
    \/ Listen
    \/ MainNewSessionFloat
    \/ MainCall
    \/ CallStep("main")
    \/ MainReturn

\* either program with its endpoint in use
Next ==
    \/ MainInitFloat
    \/ MainRunAgent
    \/ Listen
    \/ MainNewSessionFloat
    \/ MainInitMath
    \/ MainNewSessionMath
    \/ MainCall
    \/ MainReturn
    \/ \E c \in Calls : SendInitial(c) \/ Receive(c) \/ GatewayError(c)
    \/ \E c \in Calls : SendResult(c)
    \/ \E c \in Calls : ProxyFail(c) \/ ProxyReceive(c)
    \/ \E c \in Calls, h \in Handlers : ProxySend(c, h)
    \/ \E h \in Handlers : HandleRequest(h) \/ HandleReturn(h) \/ Collect(h)

Spec == Init /\ [][Next]_vars
SpecLoop == InitLoop /\ [][NextLoop]_vars

\* every step that can be taken is taken in the end: the gateway answers
\* each send and each tool invocation returns
FairLoop == SpecLoop /\ WF_vars(NextLoop)

\* the operand strings the model's gateway is taken to put in a request for
\* the calc tool: decimal literals whose values and quotients float64 holds
\* or rounds to a short decimal, and strings that are no numbers
NumberOperands ==
    { <<"2">>, <<"2", ".", "5">>, <<"-", "1", ".", "2", "5">>, <<"0">> }
Operands == NumberOperands \cup { <<"a">> }
\* main.go:56-65  the operators of the switch, and strings that are none
Operators == { <<"+">>, <<"-">>, <<"*">>, <<"/">>, <<"%">> }
OtherOperators == { <<"^">>, << >> }
CalcRequests ==
    { CallPart(PerformCalculation, CalcArgs(one, two, op)) :
        one \in Operands, two \in Operands, op \in Operators \cup OtherOperators }

\* the calc tool: the first program, its gateway asking for calculations
InitCalc == InitWith({"v1"}, MaxToolReplies, CalcRequests \cup {TextPart(<<"5">>)})
SpecCalc == InitCalc /\ [][NextLoop]_vars

----------------------------------------------------------------------------
(* Properties *)

Returned(c) == call[c].pc = "done"
Succeeded(c) == Returned(c) /\ call[c].ret.err = "none"
\* a send of activation c is pending on its session
InFlight(c) == call[c].pc \in {"wait0", "waitres"}

\* the tool names an agent's dispatch function handles: main.go:90 (float),
\* main.go:583 (math)
HandledTools(a) == IF a = "float" THEN {PerformCalculation} ELSE {CallFloatAgent}
\* the arguments its tool looks up: main.go:92-103, main.go:585
RequiredArgs(a) == IF a = "float" THEN 3 ELSE 1

\* C1: with the gateway answering every send and every tool invocation
\* returning, a callAgent that was entered returns in the end, with a text
\* or with an error, and its loop index never passes the 25 cycles; the only
\* other end is a tool handler that ends the process instead of returning.
C1_Terminates ==
    /\ [](call["main"].idx <= MaxCycles)
    /\ (call["main"].pc = "send0") ~>
          (\/ Returned("main") /\ call["main"].ret.err # Nil
           \/ call["main"].pc = "fatal")

\* C1 witness: a reply of unrecognized shape, never a terminal text, and the
\* call has returned the cycle-limit error
C1_Witness ==
    /\ Returned("main")
    /\ call["main"].ret.err = "cycles"
    /\ call["main"].part.kind = "other"
    /\ ~call["main"].sawText

\* C2 as stated: the cycle-limit error is returned only when no reply of the
\* call was terminal text (a terminal text reply is always returned)
C2_TextAlwaysReturned ==
    \A c \in Calls :
        Returned(c) /\ call[c].ret.err = "cycles" => ~call[c].sawText

\* C3: callAgent returns success only when the part it inspected last is
\* terminal text, that part is the last reply, the returned string is its
\* text, and nothing failed; a call that failed or ran out of cycles does
\* not return success
C3_SuccessOnlyOnText ==
    \A c \in Calls :
        /\ Succeeded(c) =>
              /\ IsText(call[c].part)
              /\ call[c].part = call[c].resp
              /\ call[c].ret.text = call[c].part.text
              /\ call[c].failed = Nil
              /\ LoopGuard(call[c].idx)
        /\ Returned(c) /\ call[c].ret.err # "none" => call[c].ret.text = << >>
        /\ call[c].failed # Nil => Returned(c) /\ call[c].ret.err # "none"

\* C3 witness: a call that ran a tool and then returned a terminal text
C3_Witness ==
    /\ Succeeded("main")
    /\ call["main"].nToolOk > 0
    /\ call["main"].ret.text = <<"<", Quote>>

\* C4 as stated: no call sends more than 25 messages to the gateway
C4_AtMost25Sends == \A c \in Calls : call[c].nSend <= MaxCycles

\* a tool request the agent of activation c does not handle is the part c
\* has inspected, and c is past its dispatch
UnhandledSeen(c) ==
    /\ IsFunctionCall(call[c].part)
    /\ call[c].part.name \notin HandledTools(call[c].agent)
    /\ call[c].pc # "tool"

\* C5: a tool request whose name the agent's dispatch function does not
\* handle makes the call return the "unhandled" error with nothing done for
\* it: the tool computation ran and the arguments were looked up only for
\* the earlier, successful invocations, and the sends are the first message
\* and those invocations' results, every one of them answered
C5_UnhandledAborts ==
    \A c \in Calls :
        UnhandledSeen(c) =>
            /\ Returned(c)
            /\ call[c].ret.err = "unhandled"
            /\ call[c].nTool = call[c].nToolOk + 1
            /\ call[c].nComp = call[c].nToolOk
            /\ call[c].nValid = RequiredArgs(call[c].agent) * call[c].nToolOk
            /\ call[c].nSend = call[c].nToolOk + 1
            /\ call[c].nReply = call[c].nSend

\* C5 witness: the math agent's model asked for the calc tool, which the
\* math agent's dispatch function does not handle
C5_Witness ==
    /\ call["main"].agent = "math"
    /\ UnhandledSeen("main")
    /\ call["main"].part.name = PerformCalculation
    /\ Returned("main")

\* C6: a failed tool invocation or a failed send is the last thing the call
\* does: it has returned that error, the failed invocation is the last one,
\* no result was sent for it, and a failed send is the one unanswered send
C6_NoRetry ==
    \A c \in Calls :
        /\ call[c].failed = "tool" =>
              /\ Returned(c)
              /\ call[c].ret.err \in {"unhandled", "missing", "transport", "decode"}
              /\ call[c].nTool = call[c].nToolOk + 1
              /\ call[c].nSend = call[c].nToolOk + 1
              /\ call[c].nReply = call[c].nSend
        /\ call[c].failed = "send" =>
              /\ Returned(c)
              /\ call[c].ret.err = "send"
              /\ call[c].nTool = call[c].nToolOk
              /\ call[c].nSend = call[c].nToolOk + 1
              /\ call[c].nReply + 1 = call[c].nSend

\* C6 witness: the remote agent's loop failed, so the proxy's call failed
\* in the math agent's loop, which returned after its one send
C6_Witness ==
    /\ call["main"].failed = "tool"
    /\ call["main"].ret.err = "decode"
    /\ call["main"].nSend = 1

\* a request the mux hands to handleAgentRequest
Handled(h) == http[h].st # "free" /\ Routed(http[h].path)

\* C7 as stated: every request to the endpoint gets its one response, 400
\* for a request rejected or a loop that failed, 200 with the loop's text
C7_OneResponse ==
    \A h \in Handlers :
        Handled(h) =>
            /\ http[h].st \in {"calling", "done"}
            /\ http[h].st = "done" =>
                  IF RejectedAt(http[h]) # "ok" \/ call[h].ret.err # "none"
                  THEN http[h].status = StatusBadRequest
                  ELSE /\ http[h].status = StatusOK
                       /\ Unmarshal(http[h].rbody, ContentKey)
                            = [ok |-> TRUE, val |-> call[h].ret.text]

\* C8 as stated: callAgent entered without a session returns an error and
\* has sent nothing
C8_NoSessionIsAnError ==
    \A c \in Calls :
        call[c].sess = Nil /\ call[c].pc \notin {"idle", "send0"} =>
            /\ Returned(c)
            /\ call[c].ret.err \notin {Nil, "none"}
            /\ call[c].nSend = 0

\* the activation serving the request of the proxy call of activation c
Remote(c) == call[call[c].conn]

\* C9, the request: while the proxy waits, its request is a POST to /agent
\* with the JSON content type whose body decodes to the requested message,
\* and the loop it started runs on the float agent with that message
C9_Request(c) ==
    call[c].pc = "rpcwait" =>
        LET h == call[c].conn
        IN  /\ http[h].from = c
            /\ http[h].method = "POST" /\ http[h].path = "/agent"
            /\ http[h].ctype = JsonType
            /\ DecoderDecode(http[h].body, InputKey)
                 = [ok |-> TRUE, val |-> call[c].part.args["message"]]
            /\ http[h].st \in {"calling", "done"} =>
                  /\ Remote(c).agent = "float"
                  /\ Remote(c).message = call[c].part.args["message"]

\* C9, the result: when the remote loop returned text T, the next step of
\* the proxy's call (in a process that goes on) returns T as the tool result
C9_Result(c) ==
    /\ call[c].pc = "rpcwait"
    /\ http[call[c].conn].st = "done"
    /\ Remote(c).ret.err = "none"
    /\ alive'
    /\ call'[c] # call[c]
    => /\ call'[c].pc = "sendres"
       /\ call'[c].result = Remote(c).ret.text

\* C9, the next turn: the message sent after a tool is the tool's result
C9_Sent(c) ==
    call[c].pc = "waitres" =>
        call[c].sent = [kind |-> "result", name |-> call[c].part.name,
                        result |-> call[c].result]

C10_OneInFlight ==
    \A c1, c2 \in Calls :
        c1 # c2 /\ InFlight(c1) /\ InFlight(c2) => call[c1].agent # call[c2].agent

\* the arguments an agent's tool handler requires of a request for its tool:
\* main.go:92-103 (float), main.go:585 (math)
RequiredNames(a) ==
    IF a = "float" THEN {"valueOne", "valueTwo", "operator"} ELSE {"message"}

\* a request for the agent's own tool that lacks a required argument is the
\* part activation c has inspected, and c is past its dispatch
MissingSeen(c) ==
    /\ IsFunctionCall(call[c].part)
    /\ call[c].part.name \in HandledTools(call[c].agent)
    /\ \E x \in RequiredNames(call[c].agent) : ~Has(call[c].part.args, x)
    /\ call[c].pc # "tool"

\* C11 as stated: a tool request that lacks a required argument makes the
\* tool handler return an error, with which the one call returns; the
\* process goes on
C11_MissingArgAbortsCallOnly ==
    \A c \in Calls :
        MissingSeen(c) =>
            /\ Returned(c)
            /\ call[c].ret.err = "missing"
            /\ call[c].pc # "fatal"

\* a request for the calc tool with its three arguments is the part
\* activation c has inspected, and the tool handler has returned for it
CalcDone(c) ==
    /\ call[c].agent = "float"
    /\ IsFunctionCall(call[c].part)
    /\ call[c].part.name = PerformCalculation
    /\ \A x \in RequiredNames("float") : Has(call[c].part.args, x)
    /\ call[c].pc \notin {"loop", "tool"}

\* C12: for an operator string outside {+, -, *, /, %} and any two operand
\* strings the tool handler does not fail: its result is "0", the call goes
\* on, and the tool result it sends the model next is "0"
C12_UnknownOperatorGivesZero ==
    \A c \in Calls :
        CalcDone(c) /\ call[c].part.args["operator"] \notin Operators =>
            /\ call[c].pc \in {"sendres", "waitres", "text", "done"}
            /\ call[c].failed # "tool"
            /\ call[c].result = <<"0">>
            /\ call[c].nToolOk = call[c].nTool
            /\ call[c].pc \in {"waitres", "text"} =>
                  call[c].sent = FunctionResponse(call[c].part, <<"0">>)

\* C12 witness: "2.5" ^ "a" was asked for and "0" has been sent as the result
C12_Witness ==
    /\ CalcDone("main")
    /\ call["main"].part.args = CalcArgs(<<"2", ".", "5">>, <<"a">>, <<"^">>)
    /\ call["main"].pc = "waitres"
    /\ call["main"].sent.result = <<"0">>

\* the numerator of a finite value with its sign
SNum(x) == IF x.neg THEN 0 - x.n ELSE x.n

\* r is the IEEE 754 result of a + b for finite a, b (op "+"), and likewise
\* for the other operators; stated on the values, by cross-multiplication,
\* with the sign of a zero result and the results of a division by zero
IsSum(a, b, r) ==
    /\ r.cls = "fin"
    /\ SNum(r) * a.d * b.d = (SNum(a) * b.d + SNum(b) * a.d) * r.d
    /\ r.n = 0 => (r.neg <=> (a.n = 0 /\ b.n = 0 /\ a.neg /\ b.neg))
IsProduct(a, b, r) ==
    /\ r.cls = "fin"
    /\ SNum(r) * a.d * b.d = SNum(a) * SNum(b) * r.d
    /\ r.n = 0 => (r.neg <=> (a.neg # b.neg))
IsQuotient(a, b, r) ==
    IF b.n = 0
    THEN IF a.n = 0 THEN r.cls = "nan"
         ELSE r.cls = "inf" /\ (r.neg <=> (a.neg # b.neg))
    ELSE /\ r.cls = "fin"
         /\ SNum(r) * SNum(b) * a.d = SNum(a) * b.d * r.d
         /\ r.n = 0 => (r.neg <=> (a.neg # b.neg))
\* the floating-point remainder: of the sign of a, smaller than b, and a - r
\* a whole multiple of b
IsRemainder(a, b, r) ==
    IF b.n = 0 THEN r.cls = "nan"
    ELSE /\ r.cls = "fin"
         /\ r.neg <=> a.neg
         /\ r.n * b.d < b.n * r.d
         /\ ((a.n * r.d - r.n * a.d) * b.d) % (a.d * r.d * b.n) = 0
         /\ a.n * r.d >= r.n * a.d
IsResult(op, a, b, r) ==
    CASE op = <<"+">> -> IsSum(a, b, r)
      [] op = <<"-">> -> IsSum(a, Neg(b), r)
      [] op = <<"*">> -> IsProduct(a, b, r)
      [] op = <<"/">> -> IsQuotient(a, b, r)
      [] OTHER -> IsRemainder(a, b, r)

\* a decimal string in the 'f' format: no exponent, a digit on each side of
\* the point, a sign only when negative; or the name of an infinity (signed)
\* or of not-a-number
IsDecimalString(s) ==
    LET body == IF s # << >> /\ Head(s) \in {"+", "-"} THEN Tail(s) ELSE s
    IN  /\ IsNumber(s)
        /\ body # << >>
        /\ body = InfText \/ s = NaNText \/ (IsDigit(Head(body)) /\ IsDigit(body[Len(body)]))
        /\ Head(s) = "+" => body = InfText

\* C13: for an operator of {+, -, *, /, %} and two operand strings that
\* parse as numbers, the string the calc tool returns is a decimal string
\* that reads back as the floating-point result of the operator applied to
\* the two parsed operands (the remainder for %); 2 * 2.5 gives "5"
C13_ExactResult ==
    \A c \in Calls :
        /\ CalcDone(c)
        /\ call[c].part.args["operator"] \in Operators
        /\ IsNumber(call[c].part.args["valueOne"])
        /\ IsNumber(call[c].part.args["valueTwo"])
        => /\ call[c].failed # "tool"
           /\ IsDecimalString(call[c].result)
           /\ IsResult(call[c].part.args["operator"],
                       ParseFloat(call[c].part.args["valueOne"]),
                       ParseFloat(call[c].part.args["valueTwo"]),
                       ParseFloat(call[c].result))
           /\ call[c].part.args = CalcArgs(<<"2">>, <<"2", ".", "5">>, <<"*">>)
                 => call[c].result = <<"5">>

\* C13 witness: -1.25 % 2 was asked for and the tool returned "-1.25"
C13_Witness ==
    /\ CalcDone("main")
    /\ call["main"].part.args =
         CalcArgs(<<"-", "1", ".", "2", "5">>, <<"2">>, <<"%">>)
    /\ call["main"].result = <<"-", "1", ".", "2", "5">>
    /\ call["main"].pc = "sendres"

\* the proxy call of activation c is answered without success: the
\* connection was dropped, or the response is not a 200
RemoteFailed(c) ==
    /\ call[c].pc = "rpcwait"
    /\ \/ http[call[c].conn].st = "panic"
       \/ http[call[c].conn].st = "done" /\ http[call[c].conn].status # StatusOK

\* the proxy call of activation c cannot connect
NoTransport(c) == call[c].pc = "rpc" /\ srv # "up"

\* C14, the step: the next step of a proxy call that failed (in a process
\* that goes on) returns an error from the calling agent's loop, and no
\* tool result is taken from it
C14_Step(c) ==
    /\ RemoteFailed(c) \/ NoTransport(c)
    /\ alive'
    /\ call'[c] # call[c]
    => /\ call'[c].pc = "done"
       /\ call'[c].ret.err \in {"transport", "decode"}
       /\ call'[c].ret.text = << >>
       /\ call'[c].failed = "tool"
       /\ call'[c].nToolOk = call[c].nToolOk
       /\ call'[c].nSend = call[c].nSend

\* C14: the proxy never returns a successful tool result when the remote
\* call did not succeed: a dropped connection and a 400 of a failed loop
\* make the proxy fail and the calling agent's loop return that error, and
\* of every answer other than a 200 that the endpoint writes (the 400 of a
\* rejected request and the mux's 404 too) the proxy makes a failure
C14_NoSuccessOnFailure ==
    /\ [][\A c \in Calls : C14_Step(c)]_vars
    /\ [](\A h \in Handlers :
             http[h].st = "done" /\ http[h].status # StatusOK =>
                /\ http[h].status \in {StatusBadRequest, StatusNotFound}
                /\ ProxyResult(http[h].rbody).out = "err")

\* C14 witness: the float agent's loop failed, the math agent's proxy call
\* got the 400 and the math agent's loop has returned the error
C14_Witness ==
    /\ call["main"].agent = "math"
    /\ Returned("main")
    /\ call["main"].ret.err = "decode"
    /\ call["main"].part.name = CallFloatAgent
    /\ call["main"].nToolOk = 0
    /\ \E i \in 1..Len(history["float"]) : history["float"][i].by \in Handlers

\* the part activation c inspects in this cycle is neither a tool request
\* nor a text
OtherSeen(c) ==
    /\ call[c].pc = "text"
    /\ ~IsFunctionCall(call[c].part)
    /\ ~IsText(call[c].part)

\* C15, the cycle: the step of a cycle whose part is neither a tool request
\* nor a text sends nothing, runs no tool and takes one cycle of the budget
C15_Cycle(c) ==
    OtherSeen(c) /\ call'[c] # call[c] =>
        /\ call'[c].idx = call[c].idx + 1
        /\ call'[c].pc = "loop"
        /\ call'[c].nSend = call[c].nSend
        /\ call'[c].nReply = call[c].nReply
        /\ call'[c].nTool = call[c].nTool
        /\ call'[c].resp = call[c].resp
        /\ history' = history

\* C15: a reply that is neither a tool request nor terminal text makes the
\* loop do nothing in its cycle but use one cycle of the budget; the call
\* goes on with what is left of the budget, never beyond it, and having
\* reached no terminal text ends with the cycle-limit error
C15_UnrecognizedReply ==
    /\ [][\A c \in Calls : C15_Cycle(c)]_vars
    /\ [](\A c \in Calls :
             /\ OtherSeen(c) => LoopGuard(call[c].idx)
             /\ Returned(c) /\ call[c].part.kind = "other" =>
                   /\ call[c].ret.err = "cycles"
                   /\ call[c].idx = MaxCycles)

\* C15 witness: the reply to a tool result was of no recognized shape, and
\* the call has used up its cycles
C15_Witness ==
    /\ Returned("main")
    /\ call["main"].part.kind = "other"
    /\ call["main"].nToolOk = 1
    /\ call["main"].nSend = 2
    /\ call["main"].idx = MaxCycles

\* C16 as stated: in every session history each tool-result turn comes right
\* after the model's tool-request turn it answers, of the same call and with
\* the same tool name
C16_ResultFollowsRequest ==
    \A a \in Agents :
        \A i \in 2..Len(history[a]) :
            history[a][i].kind = "result" =>
                /\ history[a][i - 1].kind = "call"
                /\ history[a][i - 1].role = "model"
                /\ history[a][i - 1].name = history[a][i].name
                /\ history[a][i - 1].by = history[a][i].by

\* C17 as stated: no handler of the endpoint is in callAgent for a request
\* without a session of its agent: the session it was handed is one that
\* was started before
C17_SessionBeforeServing ==
    \A h \in Handlers :
        call[h].pc # "idle" =>
            /\ call[h].sess # Nil
            /\ session[call[h].agent] # Nil

\* C18 as stated: the session an agent holds was started on that agent's
\* own model
C18_SessionOfOwnModel ==
    \A a \in Agents : session[a] # Nil => session[a] = a

\* C19 as stated: every tool request the gateway returned to a call is
\* dispatched to the tool handler once: never more dispatches than
\* requests, one request at most awaiting its dispatch, and none left
\* undispatched when the call returns
C19_DispatchedOnce ==
    \A c \in Calls :
        /\ call[c].nTool <= call[c].nReq
        /\ call[c].nReq <= call[c].nTool + 1
        /\ Returned(c) => call[c].nTool = call[c].nReq

\* the tool result of the request activation c has inspected is at hand or
\* has been sent, and nothing newer has been inspected
ResultHeld(c) ==
    /\ IsFunctionCall(call[c].part)
    /\ call[c].pc \in {"sendres", "waitres"}

\* C20: within one call a tool is invoked only for a request received in a
\* reply and before the next send; the message sent next is the tool result
\* with the requested tool's name and, as payload, the string that
\* invocation returned; so the sends are one more than the successful tool
\* invocations whose result was sent
C20_Sequential ==
    \A c \in Calls :
        /\ call[c].nTool <= call[c].nReq
        /\ call[c].nToolOk <= call[c].nTool
        /\ call[c].nReply <= call[c].nSend
        /\ call[c].pc \in {"loop", "tool", "text", "sendres"} =>
              call[c].nReply = call[c].nSend
        /\ call[c].pc = "tool" =>
              /\ call[c].part = call[c].resp
              /\ call[c].nTool + 1 = call[c].nReq
        /\ ResultHeld(c) =>
              /\ call[c].nTool = call[c].nReq
              /\ toolCall(call[c].agent, call[c].part).out = "ok" =>
                    call[c].result = toolCall(call[c].agent, call[c].part).result
        /\ call[c].pc = "waitres" =>
              /\ call[c].sent.kind = "result"
              /\ call[c].sent.name = call[c].part.name
              /\ call[c].sent.name = call[c].resp.name
              /\ call[c].sent.result = call[c].result
        /\ call[c].pc \notin {"idle", "send0", "panic"} =>
              call[c].nSend =
                 1 + call[c].nToolOk - (IF call[c].pc = "sendres" THEN 1 ELSE 0)

\* C20 witness: the second tool result of a call has been sent, "5" for the
\* requested performCalculation
C20_Witness ==
    /\ call["main"].pc = "waitres"
    /\ call["main"].nSend = 3
    /\ call["main"].nToolOk = 2
    /\ call["main"].sent =
         [kind |-> "result", name |-> PerformCalculation, result |-> <<"5">>]

\* what the validation of handleAgentRequest has against request x, first
\* the method, then the content type, then the body: the first of them that
\* is wrong, or "none"
FirstDefect(x) ==
    CASE x.method # "POST" -> "method"
      [] x.method = "POST" /\ x.ctype # JsonType -> "ctype"
      [] x.method = "POST" /\ x.ctype = JsonType
           /\ ~DecoderDecode(x.body, InputKey).ok -> "body"
      [] OTHER -> "none"

\* the request on connection h is one the endpoint's handler was handed and
\* validation has something against
Invalid(h) ==
    /\ Handled(h)
    /\ FirstDefect(http[h]) # "none"

\* C21, the step: the step that takes up a request validation rejects
\* enters no callAgent and leaves the sessions, their histories and the
\* gateway alone
C21_Step(h) ==
    http[h].st = "free" /\ Handled(h)' /\ FirstDefect(http'[h]) # "none" =>
        /\ call' = call
        /\ history' = history
        /\ session' = session
        /\ quota' = quota

\* C21: a request rejected in validation (a method other than POST, a
\* content type other than application/json, a body that does not decode)
\* never reaches the agent: it is answered 400 at the first check it fails,
\* in the order method, content type, body, with no callAgent entered for
\* it, no turn with the gateway and the session history as it was
C21_RejectedNeverReachesAgent ==
    /\ [][\A h \in Handlers : C21_Step(h)]_vars
    /\ [](\A h \in Handlers :
             Invalid(h) =>
                /\ http[h].st = "done"
                /\ http[h].status = StatusBadRequest
                /\ http[h].at = FirstDefect(http[h])
                /\ call[h].pc = "idle"
                /\ call[h].nSend = 0)

\* C21 witness: a GET with a wrong content type and an undecodable body was
\* rejected for its method, while the float agent's session has a history
C21_Witness ==
    \E h \in Handlers :
        /\ Invalid(h)
        /\ http[h].method = "GET"
        /\ http[h].ctype # JsonType
        /\ ~DecoderDecode(http[h].body, InputKey).ok
        /\ http[h].at = "method"
        /\ http[h].status = StatusBadRequest
        /\ Len(history["float"]) > 0

====
